---- MODULE Spec2Model ----
(***************************************************************************)
(* Model of the book-world backend: the authorization middleware, the      *)
(* review controller with the book's rating aggregate, and the comment     *)
(* tree controller, over an abstract document store.                       *)
(***************************************************************************)
EXTENDS Integers, Sequences, FiniteSets, TLC

\* ---------------------------------------------------------------- bounds
MaxReviews == 2         \* Spec: review documents ever inserted in one behaviour
MaxTreeReviews == 2     \* SpecTree: review documents ever inserted
MaxComments == 3        \* SpecTree: comment documents ever inserted
MaxRaceReviews == 2     \* SpecRace: review documents ever inserted
MaxInflight == 2        \* SpecRace: createReview requests in progress at once
MaxNewBooks == 1        \* SpecBooks: book documents ever inserted by createBook
MaxBookReviews == 2     \* SpecBooks: review documents ever inserted
MaxLikeReviews == 1     \* SpecLike: review documents ever inserted
MaxLikeComments == 1    \* SpecLike: comment documents ever inserted
MaxNewUsers == 2        \* SpecUsers: user documents ever inserted
MaxThreadReviews == 1   \* SpecThread: review documents ever inserted
MaxThreadComments == 2  \* SpecThread: comment documents ever inserted
MaxPending == 2          \* SpecSession, SpecCatalog: requests a hook has in flight at once
MaxLikes == 1           \* SpecLike: largest |likes| a review's counter reaches

\* ------------------------------------------------------------ identifiers
UserIds == {"u1", "u2", "ad"}    \* stored users; "ad" has role admin
GhostUser == "gx"                \* a user id that matches no stored user
BookIds == {"b1", "b2"}          \* stored books
GhostBook == "bx"                \* a book id that matches no stored book
NoUser == "none"                 \* undefined req.userId
NoRole == "none"                 \* undefined req.role
NoBook == "none"
NoId == 0                        \* null ObjectId reference (parent: null)
GhostReview == 98                \* a review id that matches no stored review
GhostComment == 99               \* a comment id that matches no stored comment
Contents == {"x", "y"}
NoFile == "none"                 \* a request without an image part (req.file undefined)
Files == {"f1"}                  \* the image files the modelled clients send
NoSession == "none"              \* localStorage.getItem("token") === null
Queries == {"", "t1", "t2"}      \* the search queries the modelled client types
NewBookIds == <<"b3", "b4", "b5">>     \* the _ids of the books created, in order
NewUserIds == <<"n1", "n2", "n3">>     \* the _ids of the users created, in order
Titles == {"t1", "t2"}
NewEmails == {"e1", "e2", "e3"}            \* addresses that no seeded user has
RatingInputs == {1, 2}           \* the ratings the modelled clients submit

VARIABLES
  users,          \* User collection: id -> [email, role, auth_method, favoriteBooks,
                  \*                         likedReviews, likedComments]
  books,          \* Book collection: id -> [title, averageRating, totalReviews]
  reviews,        \* Review collection: id -> [bookId, userId, content, rating, comments,
                  \*                           likes, likedBy]
  comments,       \* Comment collection: id -> [reviewId, userId, content, parent, replies,
                  \*                            likes, likedBy]
  nextReviewId,   \* next fresh Review _id
  nextCommentId,  \* next fresh Comment _id
  nextBookId,     \* index in NewBookIds of the next fresh Book _id
  nextUserId,     \* index in NewUserIds of the next fresh User _id
  tokens,         \* payloads of the bearer tokens signed so far
  resp,           \* the last response sent
  uploads,        \* the image files stored on the object storage
  client,         \* the browser: localStorage, the Recoil atoms, the hooks' state and
                  \* the requests the hooks have in flight
  inflight        \* SpecRace: the createReview requests in progress, by slot

vars == <<users, books, reviews, comments, nextReviewId, nextCommentId, nextBookId,
          nextUserId, tokens, resp, inflight, uploads, client>>

\* ------------------------------------------------------------- arithmetic
RECURSIVE GCD(_, _)
GCD(a, b) == IF b = 0 THEN a ELSE GCD(b, a % b)

\* A float mean is kept as the reduced fraction <<numerator, denominator>>.
Mean(sum, n) ==
  IF n = 0 THEN <<0, 1>>
  ELSE LET g == GCD(sum, n) IN <<sum \div g, n \div g>>

RECURSIVE SumRatings(_, _)
SumRatings(rvs, ids) ==
  IF ids = {} THEN 0
  ELSE LET i == CHOOSE x \in ids : TRUE
       IN rvs[i].rating + SumRatings(rvs, ids \ {i})

ReviewsOf(rvs, b) == {i \in DOMAIN rvs : rvs[i].bookId = b}

\* (mutant) a splice that also drops what follows x
PullTruncating(seq, x) ==
  IF \E i \in DOMAIN seq : seq[i] = x
  THEN SubSeq(seq, 1, (CHOOSE i \in DOMAIN seq : seq[i] = x) - 1)
  ELSE seq

\* $pull: remove every occurrence of x, keep the order of the rest
Pull(seq, x) == SelectSeq(seq, LAMBDA e : e # x)

Remove(f, x) == [i \in DOMAIN f \ {x} |-> f[i]]

\* $addToSet: append x unless it is already there
AddToSet(seq, x) == IF \E i \in DOMAIN seq : seq[i] = x THEN seq ELSE Append(seq, x)

\* the elements of an array
Range(seq) == {seq[i] : i \in DOMAIN seq}

\* ------------------------------------------------------------ the store
Db == [users |-> users, books |-> books, reviews |-> reviews,
       comments |-> comments, nextReviewId |-> nextReviewId,
       nextCommentId |-> nextCommentId, nextBookId |-> nextBookId,
       nextUserId |-> nextUserId, uploads |-> uploads]

\* Review model hook: full recompute of the book's aggregate over the
\* reviews currently stored for that book.
BookStats(rvs, b) ==
  LET ids == ReviewsOf(rvs, b)
      n == Cardinality(ids)
  IN [averageRating |-> Mean(SumRatings(rvs, ids), n), totalReviews |-> n]

\* (mutant) a hook that counts up from the stored total instead of counting
\* the stored reviews
updateBookRatingCountingUp(db, b) ==
  IF b \notin DOMAIN db.books THEN db
  ELSE [db EXCEPT !.books[b].averageRating = BookStats(db.reviews, b).averageRating,
                  !.books[b].totalReviews = db.books[b].totalReviews + 1]

updateBookRating(db, b) ==
  IF b \notin DOMAIN db.books THEN db
  ELSE LET stats == BookStats(db.reviews, b)
       IN [db EXCEPT !.books[b].averageRating = stats.averageRating,
                     !.books[b].totalReviews = stats.totalReviews]

\* (mutant) the schema without the unique index
ReviewIndexMissing(rvs, id, doc) == TRUE

\* reviewSchema.index({bookId: 1, userId: 1}, {unique: true})
ReviewIndexAllows(rvs, id, doc) ==
  \A j \in DOMAIN rvs \ {id} :
     ~(rvs[j].bookId = doc.bookId /\ rvs[j].userId = doc.userId)

\* the store's write of one review document under the unique index;
\* ok = FALSE is the duplicate key error
ReviewWrite(db, id, doc) ==
  IF ~ReviewIndexAllows(db.reviews, id, doc) THEN [ok |-> FALSE, db |-> db]
  ELSE [ok |-> TRUE,
        db |-> [db EXCEPT !.reviews =
                  IF id \in DOMAIN db.reviews
                  THEN [db.reviews EXCEPT ![id] = doc]
                  ELSE db.reviews @@ (id :> doc)]]

\* review.save(): the write, then the post-save hook
ReviewSave(db, id, doc) ==
  LET written == ReviewWrite(db, id, doc)
  IN IF written.ok THEN [ok |-> TRUE, db |-> updateBookRating(written.db, doc.bookId)]
     ELSE written

\* (mutant) a delete that bypasses the model's hook, as Review.deleteOne does
ReviewDeleteSkippingHook(db, id) == [db EXCEPT !.reviews = Remove(db.reviews, id)]

\* Review.findByIdAndDelete(id), with the post-delete hook
ReviewFindByIdAndDelete(db, id) ==
  IF id \notin DOMAIN db.reviews THEN db
  ELSE updateBookRating([db EXCEPT !.reviews = Remove(db.reviews, id)],
                        db.reviews[id].bookId)

\* ------------------------------------------------------ error boundary
\* ExpressError(statusCode, message); any other thrown error has no statusCode
ExpressError(statusCode, message) == [statusCode |-> statusCode, message |-> message]
DuplicateKeyError == [statusCode |-> 0, message |-> "E11000 duplicate key error"]
\* reading a property of the null that findById returns for an unknown id
TypeError == [statusCode |-> 0, message |-> "Cannot read properties of null"]
\* document.save() of a document that is no longer stored
DocumentNotFoundError == [statusCode |-> 0, message |-> "No document found for query"]

\* app.use((err, req, res, next) => ...): statusCode defaults to 500
errorHandler(err, db) ==
  [db |-> db,
   status |-> IF err.statusCode = 0 THEN 500 ELSE err.statusCode,
   message |-> err.message]

json(status, message, db) == [db |-> db, status |-> status, message |-> message]

\* ------------------------------------------------- authorization middleware
NoToken == [kind |-> "absent", id |-> NoUser, role |-> NoRole]

\* what a client can put in the Authorization header
Credentials ==
  {[header |-> h, token |-> NoToken] : h \in {"missing", "nonBearer"}}
  \cup {[header |-> "bearer", token |-> [kind |-> "malformed", id |-> NoUser, role |-> NoRole]]}
  \cup {[header |-> "bearer", token |-> [kind |-> "badsig", id |-> u, role |-> "admin"]] : u \in {"u1"}}
  \cup {[header |-> "bearer", token |-> [kind |-> k, id |-> t.id, role |-> t.role]] :
          k \in {"valid", "expired"}, t \in tokens}

CredClass(cred) ==
  IF cred.header # "bearer" THEN cred.header
  ELSE IF cred.token.kind = "valid" /\ cred.token.id \notin DOMAIN users THEN "unknownUser"
  ELSE cred.token.kind

\* next = TRUE: the request goes on to the route handler with req.userId, req.role
authorization(cred) ==
  IF cred.header # "bearer"
  THEN [next |-> FALSE, status |-> 403, message |-> "Not Authenticated",
        userId |-> NoUser, role |-> NoRole]
  ELSE IF cred.token.kind # "valid"
  THEN [next |-> FALSE, status |-> 403, message |-> "Invalid Token",
        userId |-> NoUser, role |-> NoRole]
  ELSE [next |-> TRUE, status |-> 0, message |-> "",
        userId |-> cred.token.id, role |-> cred.token.role]

\* ---------------------------------------------------------- review controller
createReview(userId, bookId, content, rating, db) ==
  LET id == db.nextReviewId
      review == [bookId |-> bookId, userId |-> userId, content |-> content,
                 rating |-> rating, comments |-> <<>>, likes |-> 0, likedBy |-> <<>>]
      saved == ReviewSave([db EXCEPT !.nextReviewId = id + 1], id, review)
  IN IF saved.ok THEN json(200, "Review created successfully", saved.db)
     ELSE errorHandler(DuplicateKeyError, db)

\* (mutant) updateReview without the ownership check
updateReviewAnyUser(userId, reviewId, content, rating, db) ==
  IF reviewId \notin DOMAIN db.reviews
  THEN errorHandler(ExpressError(404, "Review not found"), db)
  ELSE LET review == [db.reviews[reviewId] EXCEPT !.content = content, !.rating = rating]
       IN json(200, "Review updated successfully", ReviewSave(db, reviewId, review).db)

updateReview(userId, reviewId, content, rating, db) ==
  IF reviewId \notin DOMAIN db.reviews
  THEN errorHandler(ExpressError(404, "Review not found"), db)
  ELSE IF userId # db.reviews[reviewId].userId
  THEN errorHandler(ExpressError(401, "You are not authorized to update this review"), db)
  ELSE LET review == [db.reviews[reviewId] EXCEPT !.content = content, !.rating = rating]
       IN json(200, "Review updated successfully", ReviewSave(db, reviewId, review).db)

\* (mutant) delete the comment without descending into its replies
deleteCommentOnly(cms, commentId) == Remove(cms, commentId)

\* (mutant) delete every comment of the comment's review
deleteWholeThread(cms, commentId) ==
  IF commentId \notin DOMAIN cms THEN cms
  ELSE [i \in {j \in DOMAIN cms : cms[j].reviewId # cms[commentId].reviewId} |-> cms[i]]

RECURSIVE deleteCommentAndReplies(_, _), DeleteEach(_, _)
\* for (const id of ids) await deleteCommentAndReplies(id)
DeleteEach(cms, ids) ==
  IF ids = <<>> THEN cms
  ELSE DeleteEach(deleteCommentAndReplies(cms, Head(ids)), Tail(ids))

deleteCommentAndReplies(cms, commentId) ==
  IF commentId \notin DOMAIN cms THEN cms
  ELSE DeleteEach(Remove(cms, commentId), cms[commentId].replies)

\* (mutant) deleteReview that lets only the author delete
deleteReviewAuthorOnly(userId, role, reviewId, db) ==
  IF reviewId \notin DOMAIN db.reviews
  THEN errorHandler(ExpressError(400, "Review not found"), db)
  ELSE LET review == db.reviews[reviewId] IN
    IF userId # review.userId
    THEN errorHandler(ExpressError(403, "Unauthorized to delete Review"), db)
    ELSE LET d1 == ReviewFindByIdAndDelete(db, reviewId)
             d2 == [d1 EXCEPT !.comments = DeleteEach(d1.comments, review.comments)]
         IN json(200, "Review deleted successfully", d2)

deleteReview(userId, role, reviewId, db) ==
  IF reviewId \notin DOMAIN db.reviews
  THEN errorHandler(ExpressError(400, "Review not found"), db)
  ELSE LET review == db.reviews[reviewId] IN
    IF ~(role = "admin" \/ userId = review.userId)
    THEN errorHandler(ExpressError(403, "Unauthorized to delete Review"), db)
    ELSE LET d1 == ReviewFindByIdAndDelete(db, reviewId)
             d2 == [d1 EXCEPT !.comments = DeleteEach(d1.comments, review.comments)]
         IN json(200, "Review deleted successfully", d2)

\* Review.findByIdAndUpdate(reviewId, {$inc: {likes: by}, $addToSet | $pull:
\* {likedBy: userId}}): no effect when reviewId matches nothing
ReviewLikeUpdate(db, reviewId, userId, isLiked) ==
  IF reviewId \notin DOMAIN db.reviews THEN db
  ELSE IF isLiked
  THEN [db EXCEPT !.reviews[reviewId].likes = @ - 1,
                  !.reviews[reviewId].likedBy = Pull(@, userId)]
  ELSE [db EXCEPT !.reviews[reviewId].likes = @ + 1,
                  !.reviews[reviewId].likedBy = AddToSet(@, userId)]

\* User.findByIdAndUpdate(userId, {$addToSet | $pull: {likedReviews: reviewId}})
UserLikedReviewsUpdate(db, userId, reviewId, isLiked) ==
  IF userId \notin DOMAIN db.users THEN db
  ELSE IF isLiked
  THEN [db EXCEPT !.users[userId].likedReviews = Pull(@, reviewId)]
  ELSE [db EXCEPT !.users[userId].likedReviews = AddToSet(@, reviewId)]

LikeMessage(isLiked) ==
  IF isLiked THEN "Review unliked successfully" ELSE "Review liked successfully"

\* (mutant) likeReview whose unlike leaves the user's likedReviews alone
likeReviewKeepingUserList(userId, reviewId, db) ==
  IF userId \notin DOMAIN db.users THEN errorHandler(TypeError, db)
  ELSE LET isLiked == reviewId \in Range(db.users[userId].likedReviews)
           d1 == ReviewLikeUpdate(db, reviewId, userId, isLiked)
       IN json(200, LikeMessage(isLiked),
               IF isLiked THEN d1 ELSE UserLikedReviewsUpdate(d1, userId, reviewId, isLiked))

\* likeReview as one step: the read of the user, then its two writes
likeReview(userId, reviewId, db) ==
  IF userId \notin DOMAIN db.users THEN errorHandler(TypeError, db)
  ELSE LET isLiked == reviewId \in Range(db.users[userId].likedReviews)
           d1 == ReviewLikeUpdate(db, reviewId, userId, isLiked)
       IN json(200, LikeMessage(isLiked),
               UserLikedReviewsUpdate(d1, userId, reviewId, isLiked))

\* --------------------------------------------------------- comment controller
\* likeComment: likeReview on the Comment model and the user's likedComments
likeComment(userId, commentId, db) ==
  IF userId \notin DOMAIN db.users THEN errorHandler(TypeError, db)
  ELSE LET isLiked == commentId \in Range(db.users[userId].likedComments)
           d1 == IF commentId \notin DOMAIN db.comments THEN db
                 ELSE IF isLiked
                 THEN [db EXCEPT !.comments[commentId].likes = @ - 1,
                                 !.comments[commentId].likedBy = Pull(@, userId)]
                 ELSE [db EXCEPT !.comments[commentId].likes = @ + 1,
                                 !.comments[commentId].likedBy = AddToSet(@, userId)]
           d2 == IF isLiked
                 THEN [d1 EXCEPT !.users[userId].likedComments = Pull(@, commentId)]
                 ELSE [d1 EXCEPT !.users[userId].likedComments = AddToSet(@, commentId)]
       IN json(200,
               IF isLiked THEN "Comment unliked successfully"
               ELSE "Comment liked successfully", d2)

createComment(userId, reviewId, content, db) ==
  IF reviewId \notin DOMAIN db.reviews
  THEN errorHandler(ExpressError(400, "Review not found"), db)
  ELSE LET id == db.nextCommentId
           newComment == [reviewId |-> reviewId, userId |-> userId, content |-> content,
                          parent |-> NoId, replies |-> <<>>, likes |-> 0,
                          likedBy |-> <<>>]
           d1 == [db EXCEPT !.comments = db.comments @@ (id :> newComment),
                            !.nextCommentId = id + 1]
           review == [db.reviews[reviewId] EXCEPT !.comments = Append(@, id)]
       IN json(201, "Comment created successfully", ReviewSave(d1, reviewId, review).db)

\* a reply that is stored listing itself among its own replies
createNestedCommentSelfReply(userId, commentId, content, db) ==
  IF commentId \notin DOMAIN db.comments
  THEN errorHandler(ExpressError(400, "Comment not found"), db)
  ELSE LET id == db.nextCommentId
           reply == [reviewId |-> db.comments[commentId].reviewId, userId |-> userId,
                     content |-> content, parent |-> commentId, replies |-> <<id>>,
                     likes |-> 0, likedBy |-> <<>>]
           d1 == [db EXCEPT !.comments = db.comments @@ (id :> reply),
                            !.nextCommentId = id + 1]
       IN json(201, "Reply created successfully",
               [d1 EXCEPT !.comments[commentId].replies = Append(@, id)])

createNestedComment(userId, commentId, content, db) ==
  IF commentId \notin DOMAIN db.comments
  THEN errorHandler(ExpressError(400, "Comment not found"), db)
  ELSE LET id == db.nextCommentId
           parentComment == db.comments[commentId]
           reply == [reviewId |-> parentComment.reviewId, userId |-> userId,
                     content |-> content, parent |-> commentId, replies |-> <<>>,
                     likes |-> 0, likedBy |-> <<>>]
           d1 == [db EXCEPT !.comments = db.comments @@ (id :> reply),
                            !.nextCommentId = id + 1]
       IN json(201, "Reply created successfully",
               [d1 EXCEPT !.comments[commentId].replies = Append(@, id)])

\* Model.findByIdAndUpdate(id, {$pull: {field: x}}): no effect when id is absent
PullReply(cms, id, x) ==
  IF id \in DOMAIN cms THEN [cms EXCEPT ![id].replies = Pull(@, x)] ELSE cms
PullComment(rvs, id, x) ==
  IF id \in DOMAIN rvs THEN [rvs EXCEPT ![id].comments = Pull(@, x)] ELSE rvs

deleteComment(userId, role, commentId, db) ==
  IF commentId \notin DOMAIN db.comments
  THEN errorHandler(ExpressError(400, "Comment not found"), db)
  ELSE LET comment == db.comments[commentId] IN
    IF ~(role = "admin" \/ userId = comment.userId)
    THEN errorHandler(ExpressError(403, "Unauthorized to delete comment"), db)
    ELSE LET d1 == [db EXCEPT !.comments = deleteCommentAndReplies(db.comments, commentId)]
             d2 == IF comment.parent # NoId
                   THEN [d1 EXCEPT !.comments = PullReply(d1.comments, comment.parent, commentId)]
                   ELSE [d1 EXCEPT !.reviews = PullComment(d1.reviews, comment.reviewId, commentId)]
         IN json(200, "Comment deleted successfully", d2)

\* --------------------------------------------------------- users controller
\* login: payload = {id: user._id, role: user.role}, signed with the server secret
login(userId, validPassword, issued, db) ==
  IF userId \notin DOMAIN db.users \/ ~validPassword
  THEN [tokens |-> issued, status |-> 401, message |-> "Invalid Email or Password"]
  ELSE [tokens |-> issued \cup {[id |-> userId, role |-> db.users[userId].role]},
        status |-> 200, message |-> "Welcome"]

\* new User({...}): role user, empty lists
NewUser(email, auth_method) ==
  [email |-> email, role |-> "user", auth_method |-> auth_method,
   favoriteBooks |-> <<>>, likedReviews |-> <<>>, likedComments |-> <<>>]

\* User.findOne({email}): the ids of the matching users
FindByEmail(db, email) == {u \in DOMAIN db.users : db.users[u].email = email}

\* (mutant) signup without the existing-user check
signupUnchecked(email, db) ==
  json(201, "User created successfully",
       [db EXCEPT !.users = db.users @@ (NewUserIds[db.nextUserId] :> NewUser(email, "local")),
                  !.nextUserId = @ + 1])

signup(email, db) ==
  IF FindByEmail(db, email) # {}
  THEN errorHandler(ExpressError(400, "Email already exists"), db)
  ELSE json(201, "User created successfully",
            [db EXCEPT !.users = db.users @@ (NewUserIds[db.nextUserId] :> NewUser(email, "local")),
                       !.nextUserId = @ + 1])

\* googleAuth: create the user of a new address, mark an existing one as a
\* google account, and sign a token for that user
googleAuth(email, issued, db) ==
  LET found == FindByEmail(db, email)
      id == IF found = {} THEN NewUserIds[db.nextUserId] ELSE CHOOSE u \in found : TRUE
      d1 == IF found = {}
            THEN [db EXCEPT !.users = db.users @@ (id :> NewUser(email, "google")),
                            !.nextUserId = @ + 1]
            ELSE [db EXCEPT !.users[id].auth_method = "google"]
  IN [db |-> d1, status |-> 200, message |-> "Welcome",
      tokens |-> issued \cup {[id |-> id, role |-> d1.users[id].role]}]

\* (mutant) the favourites toggle that never looks at the list and always pushes
toggleFavouriteBookAlwaysPushing(userId, bookId, db) ==
  IF userId \notin DOMAIN db.users
  THEN errorHandler(ExpressError(404, "User not found"), db)
  ELSE IF bookId \notin DOMAIN db.books
  THEN errorHandler(ExpressError(404, "Book not found"), db)
  ELSE json(200, "Book added to favourites",
            [db EXCEPT !.users[userId].favoriteBooks = Append(@, bookId)])

\* toggleFavouriteBook as one step: findById of the user and of the book, the
\* includes test, pull or push on the loaded document, user.save()
toggleFavouriteBook(userId, bookId, db) ==
  IF userId \notin DOMAIN db.users
  THEN errorHandler(ExpressError(404, "User not found"), db)
  ELSE IF bookId \notin DOMAIN db.books
  THEN errorHandler(ExpressError(404, "Book not found"), db)
  ELSE LET isFavorite == bookId \in Range(db.users[userId].favoriteBooks)
       IN json(200,
               IF isFavorite THEN "Book removed from favourites"
               ELSE "Book added to favourites",
               [db EXCEPT !.users[userId].favoriteBooks =
                  IF isFavorite THEN Pull(@, bookId) ELSE Append(@, bookId)])

\* promoteUser: an admin sets the role of a stored user to admin
promoteUser(role, userId, db) ==
  IF role # "admin"
  THEN errorHandler(ExpressError(401, "You are not Authorized to promote users"), db)
  ELSE IF userId \notin DOMAIN db.users
  THEN errorHandler(ExpressError(404, "User not found"), db)
  ELSE json(200, "User promoted to admin", [db EXCEPT !.users[userId].role = "admin"])

\* ------------------------------------------------------------ book controller
\* new Book(body): the aggregate starts at 0 / 0
NewBook(title) == [title |-> title, averageRating |-> <<0, 1>>, totalReviews |-> 0]

\* (mutant) createBook without the role check
createBookAnyRole(role, title, db) ==
  json(200, "New Book Added",
       [db EXCEPT !.books = db.books @@ (NewBookIds[db.nextBookId] :> NewBook(title)),
                  !.nextBookId = @ + 1])

createBook(role, title, db) ==
  IF role # "admin"
  THEN errorHandler(ExpressError(401, "You are not Authorized to Add Book"), db)
  ELSE json(200, "New Book Added",
            [db EXCEPT !.books = db.books @@ (NewBookIds[db.nextBookId] :> NewBook(title)),
                       !.nextBookId = @ + 1])

updateBook(role, bookId, title, db) ==
  IF role # "admin"
  THEN errorHandler(ExpressError(401, "You are not Authorized to Update a Book"), db)
  ELSE IF bookId \notin DOMAIN db.books
  THEN errorHandler(ExpressError(404, "Book not found"), db)
  ELSE json(200, "Book Updated", [db EXCEPT !.books[bookId].title = title])

\* (mutant) deleteBook that leaves the users' favourites alone
deleteBookKeepingFavourites(role, bookId, db) ==
  IF role # "admin"
  THEN errorHandler(ExpressError(401, "You are not Authorized to Delete a Book"), db)
  ELSE IF bookId \notin DOMAIN db.books
  THEN errorHandler(ExpressError(404, "Book not found"), db)
  ELSE json(200, "Book Deleted",
            [db EXCEPT !.books = Remove(db.books, bookId),
                       !.reviews = [r \in {i \in DOMAIN db.reviews : db.reviews[i].bookId # bookId}
                                      |-> db.reviews[r]]])

\* deleteBook: the book, every review of the book, and the book's id in every
\* user's favoriteBooks
deleteBook(role, bookId, db) ==
  IF role # "admin"
  THEN errorHandler(ExpressError(401, "You are not Authorized to Delete a Book"), db)
  ELSE IF bookId \notin DOMAIN db.books
  THEN errorHandler(ExpressError(404, "Book not found"), db)
  ELSE json(200, "Book Deleted",
            [db EXCEPT !.books = Remove(db.books, bookId),
                       !.reviews = [r \in {i \in DOMAIN db.reviews : db.reviews[i].bookId # bookId}
                                      |-> db.reviews[r]],
                       !.users = [u \in DOMAIN db.users |->
                                    [db.users[u] EXCEPT !.favoriteBooks = Pull(@, bookId)]]])

\* --------------------------------------------------------------------- router
\* router.route(...).post(authorization, wrapAsync(handler)): the handler runs
\* only when the middleware calls next()
Halt(auth, db) == json(auth.status, auth.message, db)

PostReview(cred, bookId, content, rating, db) ==
  LET auth == authorization(cred)
  IN IF auth.next THEN createReview(auth.userId, bookId, content, rating, db)
     ELSE Halt(auth, db)

PutReview(cred, reviewId, content, rating, db) ==
  LET auth == authorization(cred)
  IN IF auth.next THEN updateReview(auth.userId, reviewId, content, rating, db)
     ELSE Halt(auth, db)

DeleteReviewRoute(cred, reviewId, db) ==
  LET auth == authorization(cred)
  IN IF auth.next THEN deleteReview(auth.userId, auth.role, reviewId, db)
     ELSE Halt(auth, db)

PostComment(cred, reviewId, content, db) ==
  LET auth == authorization(cred)
  IN IF auth.next THEN createComment(auth.userId, reviewId, content, db)
     ELSE Halt(auth, db)

PostNestedComment(cred, commentId, content, db) ==
  LET auth == authorization(cred)
  IN IF auth.next THEN createNestedComment(auth.userId, commentId, content, db)
     ELSE Halt(auth, db)

DeleteCommentRoute(cred, commentId, db) ==
  LET auth == authorization(cred)
  IN IF auth.next THEN deleteComment(auth.userId, auth.role, commentId, db)
     ELSE Halt(auth, db)

PostLike(cred, reviewId, db) ==
  LET auth == authorization(cred)
  IN IF auth.next THEN likeReview(auth.userId, reviewId, db)
     ELSE Halt(auth, db)

PostCommentLike(cred, commentId, db) ==
  LET auth == authorization(cred)
  IN IF auth.next THEN likeComment(auth.userId, commentId, db)
     ELSE Halt(auth, db)

\* upload.single("image"): multer hands the image part to the Cloudinary
\* storage before the next handler runs
upload(file, db) ==
  IF file = NoFile THEN db ELSE [db EXCEPT !.uploads = @ \cup {file}]

\* router.route("/").post(authorization, upload.single("image"), createBook)
PostBook(cred, file, title, db) ==
  LET auth == authorization(cred)
  IN IF auth.next THEN createBook(auth.role, title, upload(file, db))
     ELSE Halt(auth, db)

\* router.route("/:id").put(authorization, upload.single("image"), updateBook)
PutBook(cred, file, bookId, title, db) ==
  LET auth == authorization(cred)
  IN IF auth.next THEN updateBook(auth.role, bookId, title, upload(file, db))
     ELSE Halt(auth, db)

\* PUT /users/:userId/promote
PutPromote(cred, userId, db) ==
  LET auth == authorization(cred)
  IN IF auth.next THEN promoteUser(auth.role, userId, db)
     ELSE Halt(auth, db)

DeleteBookRoute(cred, bookId, db) ==
  LET auth == authorization(cred)
  IN IF auth.next THEN deleteBook(auth.role, bookId, db)
     ELSE Halt(auth, db)

PutFavourite(cred, bookId, db) ==
  LET auth == authorization(cred)
  IN IF auth.next THEN toggleFavouriteBook(auth.userId, bookId, db)
     ELSE Halt(auth, db)

\* ------------------------------------------------------------ the browser
\* the tokens the browser receives at sign-in: one of a user, one of an admin
SessionTokens == {"t1", "t2"}

\* response.data.user of GET /users/me for the user of the token sent
Me(token) ==
  IF token = "t1"
  THEN [role |-> "user", _id |-> "u1", avatar |-> "a1", favoriteBooks |-> <<"b1">>,
        likedReviews |-> <<1>>, likedComments |-> <<1>>]
  ELSE [role |-> "admin", _id |-> "ad", avatar |-> "a2", favoriteBooks |-> <<"b2">>,
        likedReviews |-> <<2>>, likedComments |-> <<2>>]

\* the atoms' defaults with an empty localStorage, and the hooks' useState
ClientInit ==
  [token |-> NoSession, isLoggedIn |-> FALSE, userRole |-> "", userId |-> "",
   userAvatar |-> "", userFavourites |-> <<>>, likedReviews |-> <<>>,
   likedComments |-> <<>>, isUserLoading |-> FALSE,
   mePending |-> <<>>,       \* the token each GET /users/me in flight carries
   books |-> {}, isLoading |-> FALSE,
   searchQuery |-> "none",   \* the query of the last run of the useBooks effect
   booksPending |-> <<>>,    \* the query each GET /books in flight carries
   toasted |-> FALSE,        \* toast.error has been shown
   last |-> "none"]          \* the last browser event

\* the sequence without its i-th element
Without(seq, i) == SubSeq(seq, 1, i - 1) \o SubSeq(seq, i + 1, Len(seq))

\* useUserData: fetchUser up to the request
fetchUser(c) ==
  [c EXCEPT !.isUserLoading = TRUE, !.mePending = Append(@, c.token)]

\* useUserData: the effect on [isLoggedIn]
userEffect(c) ==
  IF ~c.isLoggedIn
  THEN [c EXCEPT !.userRole = "", !.userId = "", !.userAvatar = "",
                 !.userFavourites = <<>>, !.likedReviews = <<>>, !.likedComments = <<>>]
  ELSE fetchUser(c)

\* setIsLoggedIn(v): the effect runs again when the atom's value changed
setIsLoggedIn(c, v) ==
  IF c.isLoggedIn = v THEN c ELSE userEffect([c EXCEPT !.isLoggedIn = v])

\* fetchUser: .then and .finally of a response, then the render
meThen(c, user) ==
  setIsLoggedIn([c EXCEPT !.userRole = user.role, !.userId = user._id,
                          !.userAvatar = user.avatar,
                          !.userFavourites = user.favoriteBooks,
                          !.likedReviews = user.likedReviews,
                          !.likedComments = user.likedComments,
                          !.isUserLoading = FALSE], TRUE)

\* fetchUser: .catch (console.log) and .finally of a failed request
meCatch(c) == [c EXCEPT !.isUserLoading = FALSE]

\* getAllBooks: the books matching q, every book without q
getAllBooks(q, db) == {b \in DOMAIN db.books : q = "" \/ db.books[b].title = q}

\* ------------------------------------------------------------------- requests
Commit(db) ==
  /\ users' = db.users
  /\ books' = db.books
  /\ reviews' = db.reviews
  /\ comments' = db.comments
  /\ nextReviewId' = db.nextReviewId
  /\ nextCommentId' = db.nextCommentId
  /\ nextBookId' = db.nextBookId
  /\ nextUserId' = db.nextUserId
  /\ uploads' = db.uploads

\* the response as the client sees it; a request stopped by the middleware is
\* recorded under the middleware's name
Response(op, cred, out) ==
  [op |-> IF authorization(cred).next THEN op ELSE "authorization",
   status |-> out.status, message |-> out.message]

Idle == [pc |-> "idle", userId |-> NoUser, bookId |-> NoBook, content |-> "",
         rating |-> 0, checkPassed |-> FALSE, reviewId |-> NoId,
         isLiked |-> FALSE, isFavorite |-> FALSE,
         commentId |-> NoId, parent |-> NoId, newCommentId |-> NoId,
         stats |-> [averageRating |-> <<0, 1>>, totalReviews |-> 0]]

Init ==
  /\ users = [u \in UserIds |->
                [email |-> u, role |-> IF u = "ad" THEN "admin" ELSE "user",
                 auth_method |-> "local", favoriteBooks |-> <<>>, likedReviews |-> <<>>, likedComments |-> <<>>]]
  /\ books = [b \in BookIds |->
                [title |-> "t1", averageRating |-> <<0, 1>>, totalReviews |-> 0]]
  /\ reviews = <<>>
  /\ comments = <<>>
  /\ nextReviewId = 1
  /\ nextCommentId = 1
  /\ nextBookId = 1
  /\ nextUserId = 1
  /\ tokens = {[id |-> GhostUser, role |-> "user"]}
               \cup {[id |-> u, role |-> IF u = "ad" THEN "admin" ELSE "user"] : u \in UserIds}
  /\ resp = [op |-> "none", status |-> 0, message |-> ""]
  /\ inflight = [s \in 1..MaxInflight |-> Idle]
  /\ uploads = {}
  /\ client = ClientInit

Login ==
  \E u \in UserIds, validPassword \in BOOLEAN :
    LET out == login(u, validPassword, tokens, Db)
    IN /\ tokens' = out.tokens
       /\ resp' = [op |-> "login", status |-> out.status, message |-> out.message]
       /\ UNCHANGED <<users, books, reviews, comments, nextReviewId, nextCommentId, nextBookId,
                    nextUserId, uploads, client, inflight>>

\* POST /books/:id/reviews
CreateReview(creds, bookInputs, contentInputs, ratingInputs, maxReviews) ==
  \E cred \in creds, b \in bookInputs, c \in contentInputs, k \in ratingInputs :
    LET out == PostReview(cred, b, c, k, Db)
    IN /\ out.db.nextReviewId <= maxReviews + 1
       /\ Commit(out.db)
       /\ resp' = Response("createReview", cred, out)
       /\ UNCHANGED <<tokens, inflight, client>>

\* PUT /books/:id/reviews/:reviewId
UpdateReview(creds, contentInputs, ratingInputs, maxReviews) ==
  \E cred \in creds, r \in 1..maxReviews, c \in contentInputs, k \in ratingInputs :
    LET out == PutReview(cred, r, c, k, Db)
    IN /\ Commit(out.db)
       /\ resp' = Response("updateReview", cred, out)
       /\ UNCHANGED <<tokens, inflight, client>>

\* DELETE /books/:id/reviews/:reviewId
DeleteReview(creds, maxReviews) ==
  \E cred \in creds, r \in 1..maxReviews :
    LET out == DeleteReviewRoute(cred, r, Db)
    IN /\ Commit(out.db)
       /\ resp' = Response("deleteReview", cred, out)
       /\ UNCHANGED <<tokens, inflight, client>>

\* POST /books/:bookId/reviews/:reviewId/comments
CreateComment(creds, contentInputs, maxReviews) ==
  \E cred \in creds, r \in 1..maxReviews, c \in contentInputs :
    LET out == PostComment(cred, r, c, Db)
    IN /\ out.db.nextCommentId <= MaxComments + 1
       /\ Commit(out.db)
       /\ resp' = Response("createComment", cred, out)
       /\ UNCHANGED <<tokens, inflight, client>>

\* POST /books/:bookId/reviews/:reviewId/comments/:commentId
CreateNestedComment(creds, contentInputs) ==
  \E cred \in creds, p \in 1..MaxComments, c \in contentInputs :
    LET out == PostNestedComment(cred, p, c, Db)
    IN /\ out.db.nextCommentId <= MaxComments + 1
       /\ Commit(out.db)
       /\ resp' = Response("createNestedComment", cred, out)
       /\ UNCHANGED <<tokens, inflight, client>>

\* DELETE /books/:bookId/reviews/:reviewId/comments/:commentId
DeleteComment(creds) ==
  \E cred \in creds, c \in 1..MaxComments :
    LET out == DeleteCommentRoute(cred, c, Db)
    IN /\ Commit(out.db)
       /\ resp' = Response("deleteComment", cred, out)
       /\ UNCHANGED <<tokens, inflight, client>>

\* POST /books
CreateBook(creds, fileInputs, titleInputs, maxNewBooks) ==
  \E cred \in creds, f \in fileInputs, t \in titleInputs :
    LET out == PostBook(cred, f, t, Db)
    IN /\ out.db.nextBookId <= maxNewBooks + 1
       /\ Commit(out.db)
       /\ resp' = Response("createBook", cred, out)
       /\ UNCHANGED <<tokens, inflight, client>>

\* PUT /books/:id
UpdateBook(creds, fileInputs, bookInputs, titleInputs) ==
  \E cred \in creds, f \in fileInputs, b \in bookInputs, t \in titleInputs :
    LET out == PutBook(cred, f, b, t, Db)
    IN /\ Commit(out.db)
       /\ resp' = Response("updateBook", cred, out)
       /\ UNCHANGED <<tokens, inflight, client>>

\* DELETE /books/:id
DeleteBook(creds, bookInputs) ==
  \E cred \in creds, b \in bookInputs :
    LET out == DeleteBookRoute(cred, b, Db)
    IN /\ Commit(out.db)
       /\ resp' = Response("deleteBook", cred, out)
       /\ UNCHANGED <<tokens, inflight, client>>

\* PUT /users/:userId/promote
Promote(creds, userInputs) ==
  \E cred \in creds, u \in userInputs :
    LET out == PutPromote(cred, u, Db)
    IN /\ Commit(out.db)
       /\ resp' = Response("promoteUser", cred, out)
       /\ UNCHANGED <<tokens, inflight, client>>

\* PUT /users/favourites
ToggleFavourite(creds, bookInputs) ==
  \E cred \in creds, b \in bookInputs :
    LET out == PutFavourite(cred, b, Db)
    IN /\ Commit(out.db)
       /\ resp' = Response("toggleFavouriteBook", cred, out)
       /\ UNCHANGED <<tokens, inflight, client>>

\* ------------------------------------------- Spec: reviews and the aggregate
\* the clients of this specification: every stored user, and an anonymous one
ReviewCredentials ==
  {cred \in Credentials :
     \/ cred.header = "missing"
     \/ cred.token.kind = "valid" /\ cred.token.id \in UserIds}

Next ==
  \/ Login
  \/ CreateReview(ReviewCredentials, BookIds, Contents, RatingInputs, MaxReviews)
  \/ UpdateReview(ReviewCredentials, Contents, RatingInputs, MaxReviews)
  \/ DeleteReview(ReviewCredentials, MaxReviews)

Spec == Init /\ [][Next]_vars

\* -------------------------------------------------- SpecTree: comment trees
\* the clients of this specification: one user, the admin, and an anonymous one
TreeCredentials ==
  {cred \in Credentials :
     \/ cred.header = "missing"
     \/ cred.token.kind = "valid" /\ cred.token.id \in {"u1", "ad"}}

NextTree ==
  \/ CreateReview(TreeCredentials, {"b1"}, {"x"}, {1}, MaxTreeReviews)
  \/ DeleteReview(TreeCredentials, MaxTreeReviews)
  \/ CreateComment(TreeCredentials, {"x"}, MaxTreeReviews)
  \/ CreateNestedComment(TreeCredentials, {"x"})
  \/ DeleteComment(TreeCredentials)

SpecTree == Init /\ [][NextTree]_vars

\* ------------------------------------ SpecRace: overlapping createReview
\* createReview one await at a time: the middleware and new Review(...), then
\* review.save() (the store's write, then the hook's read of the reviews and
\* its write of the book), then res.json(...)
RaceCredentials ==
  {cred \in Credentials :
     \/ cred.header = "missing"
     \/ cred.token.kind = "valid" /\ cred.token.id \in {"u1", "u2"}}

Saving == {s \in 1..MaxInflight : inflight[s].pc = "save"}

BeginCreateReview(s) ==
  /\ inflight[s].pc = "idle"
  /\ nextReviewId + Cardinality(Saving) <= MaxRaceReviews
  /\ \E cred \in RaceCredentials, b \in {"b1"}, c \in {"x"}, k \in RatingInputs :
       LET auth == authorization(cred)
       IN IF auth.next
          THEN /\ inflight' = [inflight EXCEPT ![s] =
                    [Idle EXCEPT !.pc = "save", !.userId = auth.userId, !.bookId = b,
                                 !.content = c, !.rating = k,
                                 !.checkPassed =
                                    ~\E r \in DOMAIN reviews :
                                        reviews[r].bookId = b /\ reviews[r].userId = auth.userId]]
               /\ UNCHANGED resp
          ELSE /\ resp' = Response("createReview", cred, Halt(auth, Db))
               /\ UNCHANGED inflight
  /\ UNCHANGED <<users, books, reviews, comments, nextReviewId, nextCommentId, nextBookId,
               nextUserId, uploads, client, tokens>>

SaveReview(s) ==
  /\ inflight[s].pc = "save"
  /\ LET q == inflight[s]
         review == [bookId |-> q.bookId, userId |-> q.userId, content |-> q.content,
                    rating |-> q.rating, comments |-> <<>>, likes |-> 0, likedBy |-> <<>>]
         written == ReviewWrite(Db, nextReviewId, review)
     IN IF written.ok
        THEN /\ reviews' = written.db.reviews
             /\ nextReviewId' = nextReviewId + 1
             /\ inflight' = [inflight EXCEPT ![s].pc = "hookRead", ![s].reviewId = nextReviewId]
        ELSE /\ inflight' = [inflight EXCEPT ![s].pc = "failed"]
             /\ UNCHANGED <<reviews, nextReviewId>>
  /\ UNCHANGED <<users, books, comments, nextCommentId, nextBookId, nextUserId, uploads, client, tokens, resp>>

HookRead(s) ==
  /\ inflight[s].pc = "hookRead"
  /\ inflight' = [inflight EXCEPT ![s].pc = "hookWrite",
                                  ![s].stats = BookStats(reviews, inflight[s].bookId)]
  /\ UNCHANGED <<users, books, reviews, comments, nextReviewId, nextCommentId, nextBookId,
               nextUserId, uploads, client, tokens, resp>>

HookWrite(s) ==
  /\ inflight[s].pc = "hookWrite"
  /\ books' = IF inflight[s].bookId \in DOMAIN books
              THEN [books EXCEPT
                      ![inflight[s].bookId].averageRating = inflight[s].stats.averageRating,
                      ![inflight[s].bookId].totalReviews = inflight[s].stats.totalReviews]
              ELSE books
  /\ inflight' = [inflight EXCEPT ![s].pc = "saved"]
  /\ UNCHANGED <<users, reviews, comments, nextReviewId, nextCommentId, nextBookId,
               nextUserId, uploads, client, tokens, resp>>

Respond(s) ==
  /\ inflight[s].pc \in {"saved", "failed"}
  /\ resp' = IF inflight[s].pc = "saved"
             THEN [op |-> "createReview", status |-> 200,
                   message |-> "Review created successfully"]
             ELSE LET out == errorHandler(DuplicateKeyError, Db)
                  IN [op |-> "createReview", status |-> out.status, message |-> out.message]
  /\ inflight' = [inflight EXCEPT ![s] = Idle]
  /\ UNCHANGED <<users, books, reviews, comments, nextReviewId, nextCommentId, nextBookId,
               nextUserId, uploads, client, tokens>>

NextRace ==
  \E s \in 1..MaxInflight :
    \/ BeginCreateReview(s)
    \/ SaveReview(s)
    \/ HookRead(s)
    \/ HookWrite(s)
    \/ Respond(s)

SpecRace == Init /\ [][NextRace]_vars

\* POST /users/signup
Signup(emailInputs) ==
  \E e \in emailInputs :
    LET out == signup(e, Db)
    IN /\ out.db.nextUserId <= MaxNewUsers + 1
       /\ Commit(out.db)
       /\ resp' = [op |-> "signup", status |-> out.status, message |-> out.message]
       /\ UNCHANGED <<tokens, inflight, client>>

\* POST /users/google-auth, with the address of a verified Google token
GoogleAuth(emailInputs) ==
  \E e \in emailInputs :
    LET out == googleAuth(e, tokens, Db)
    IN /\ out.db.nextUserId <= MaxNewUsers + 1
       /\ Commit(out.db)
       /\ tokens' = out.tokens
       /\ resp' = [op |-> "googleAuth", status |-> out.status, message |-> out.message]
       /\ UNCHANGED <<inflight, client>>

\* ------------------------------------------------- SpecUsers: registration
\* the addresses the clients send: two seeded users' and the new ones
EmailInputs == {"u1", "ad"} \cup NewEmails

NextUsers ==
  \/ Signup(EmailInputs)
  \/ GoogleAuth(EmailInputs)
  \/ Login

SpecUsers == Init /\ [][NextUsers]_vars

\* ------------------------- SpecBooks: the catalogue, its reviews, favourites
\* the clients of this specification: one user, the admin, and an anonymous one
BookCredentials ==
  {cred \in Credentials :
     \/ cred.header = "missing"
     \/ cred.token.kind = "valid" /\ cred.token.id \in {"u1", "ad"}}

\* the book ids the clients send: a seeded book and the first created one
BookInputs == {"b1", NewBookIds[1]}

NextBooks ==
  \/ CreateBook(BookCredentials, {NoFile} \cup Files, {"t1"}, MaxNewBooks)
  \/ UpdateBook(BookCredentials, {NoFile}, {NewBookIds[1]}, Titles)
  \/ DeleteBook(BookCredentials, BookInputs)
  \/ CreateReview(BookCredentials, BookInputs, {"x"}, {1}, MaxBookReviews)
  \/ ToggleFavourite(BookCredentials, BookInputs)

SpecBooks == Init /\ [][NextBooks]_vars

\* ------------------------------------ SpecFav: overlapping favourite toggles
\* toggleFavouriteBook one await at a time: the middleware and the two
\* findById reads with the includes test, then user.save(), which sends the
\* change made to the loaded array ($push for push, $pull for pull)
FavCredentials ==
  {cred \in Credentials :
     \/ cred.header = "missing"
     \/ cred.token.kind = "valid" /\ cred.token.id \in {"u1", "u2"}}

BeginToggleFavourite(s) ==
  /\ inflight[s].pc = "idle"
  /\ \E cred \in FavCredentials, b \in BookIds \cup {GhostBook} :
       LET auth == authorization(cred)
       IN IF auth.next /\ auth.userId \in DOMAIN users /\ b \in DOMAIN books
          THEN /\ inflight' = [inflight EXCEPT ![s] =
                    [Idle EXCEPT !.pc = "favSave", !.userId = auth.userId, !.bookId = b,
                                 !.isFavorite = b \in Range(users[auth.userId].favoriteBooks)]]
               /\ UNCHANGED resp
          ELSE /\ resp' = Response("toggleFavouriteBook", cred, PutFavourite(cred, b, Db))
               /\ UNCHANGED inflight
  /\ UNCHANGED <<users, books, reviews, comments, nextReviewId, nextCommentId, nextBookId,
               nextUserId, uploads, client, tokens>>

SaveFavourite(s) ==
  /\ inflight[s].pc = "favSave"
  /\ LET q == inflight[s]
     IN /\ users' = [users EXCEPT ![q.userId].favoriteBooks =
                       IF q.isFavorite THEN Pull(@, q.bookId) ELSE Append(@, q.bookId)]
        /\ resp' = [op |-> "toggleFavouriteBook", status |-> 200,
                    message |-> IF q.isFavorite THEN "Book removed from favourites"
                                ELSE "Book added to favourites"]
  /\ inflight' = [inflight EXCEPT ![s] = Idle]
  /\ UNCHANGED <<books, reviews, comments, nextReviewId, nextCommentId, nextBookId,
               nextUserId, uploads, client, tokens>>

NextFav ==
  \E s \in 1..MaxInflight :
    \/ BeginToggleFavourite(s)
    \/ SaveFavourite(s)

SpecFav == Init /\ [][NextFav]_vars

\* ------------------------------------------ SpecLike: overlapping like toggles
\* likeReview one await at a time: the middleware and User.findById with the
\* includes test, then Review.findByIdAndUpdate, then User.findByIdAndUpdate
\* and res.json; likeComment and the creation of the targets are single steps
LikeCredentials ==
  {cred \in Credentials : cred.token.kind = "valid" /\ cred.token.id \in {"u1", "u2"}}

BeginLikeReview(s) ==
  /\ inflight[s].pc = "idle"
  /\ \E cred \in LikeCredentials, r \in DOMAIN reviews :
       LET auth == authorization(cred)
       IN IF auth.next /\ auth.userId \in DOMAIN users
          THEN /\ inflight' = [inflight EXCEPT ![s] =
                    [Idle EXCEPT !.pc = "likeReview", !.userId = auth.userId, !.reviewId = r,
                                 !.isLiked = r \in Range(users[auth.userId].likedReviews)]]
               /\ UNCHANGED resp
          ELSE /\ resp' = Response("likeReview", cred, PostLike(cred, r, Db))
               /\ UNCHANGED inflight
  /\ UNCHANGED <<users, books, reviews, comments, nextReviewId, nextCommentId, nextBookId,
               nextUserId, uploads, client, tokens>>

LikeUpdateReview(s) ==
  /\ inflight[s].pc = "likeReview"
  /\ LET q == inflight[s]
         d == ReviewLikeUpdate(Db, q.reviewId, q.userId, q.isLiked)
     IN /\ \A r \in DOMAIN d.reviews :
             d.reviews[r].likes \in (0 - MaxLikes)..MaxLikes
        /\ reviews' = d.reviews
  /\ inflight' = [inflight EXCEPT ![s].pc = "likeUser"]
  /\ UNCHANGED <<users, books, comments, nextReviewId, nextCommentId, nextBookId,
               nextUserId, uploads, client, tokens, resp>>

LikeUpdateUser(s) ==
  /\ inflight[s].pc = "likeUser"
  /\ LET q == inflight[s]
     IN /\ users' = UserLikedReviewsUpdate(Db, q.userId, q.reviewId, q.isLiked).users
        /\ resp' = [op |-> "likeReview", status |-> 200, message |-> LikeMessage(q.isLiked)]
  /\ inflight' = [inflight EXCEPT ![s] = Idle]
  /\ UNCHANGED <<books, reviews, comments, nextReviewId, nextCommentId, nextBookId,
               nextUserId, uploads, client, tokens>>

\* POST /books/:id/reviews/:reviewId/comments/:commentId/like
LikeComment(creds) ==
  \E cred \in creds, c \in DOMAIN comments :
    LET out == PostCommentLike(cred, c, Db)
    IN /\ Commit(out.db)
       /\ resp' = Response("likeComment", cred, out)
       /\ UNCHANGED <<tokens, inflight, client>>

\* the author of the targets, who also likes comments
AuthorCredentials == {cred \in LikeCredentials : cred.token.id = "u1"}

NextLike ==
  \/ CreateReview(AuthorCredentials, {"b1"}, {"x"}, {1}, MaxLikeReviews)
  \/ nextCommentId <= MaxLikeComments /\ CreateComment(AuthorCredentials, {"x"}, MaxLikeReviews)
  \/ LikeComment(AuthorCredentials)
  \/ \E s \in 1..MaxInflight :
       \/ BeginLikeReview(s)
       \/ LikeUpdateReview(s)
       \/ LikeUpdateUser(s)

SpecLike == Init /\ [][NextLike]_vars

\* ------------------------------- SpecThread: overlapping comment requests
\* the comment handlers one await at a time. createComment: the middleware
\* and Review.findById, newComment.save(), review.save() with the pushed id.
\* createNestedComment: Comment.findById of the parent, reply.save(),
\* parentComment.save() with the pushed id. deleteComment: Comment.findById
\* with the authorization check, deleteCommentAndReplies, the $pull from the
\* owner's list. save() of a loaded document sends the pushed id as $push and
\* fails when the document is no longer stored.
ThreadCredentials ==
  {cred \in Credentials : cred.token.kind = "valid" /\ cred.token.id = "u1"}

\* the requests that have still to insert their comment
Inserting == {s \in 1..MaxInflight : inflight[s].pc \in {"commentSave", "replySave"}}

BeginCreateComment(s) ==
  /\ inflight[s].pc = "idle"
  /\ nextCommentId + Cardinality(Inserting) <= MaxThreadComments
  /\ \E cred \in ThreadCredentials, r \in 1..MaxThreadReviews :
       LET auth == authorization(cred)
       IN IF auth.next /\ r \in DOMAIN reviews
          THEN /\ inflight' = [inflight EXCEPT ![s] =
                    [Idle EXCEPT !.pc = "commentSave", !.userId = auth.userId,
                                 !.reviewId = r, !.content = "x"]]
               /\ UNCHANGED resp
          ELSE /\ resp' = Response("createComment", cred, PostComment(cred, r, "x", Db))
               /\ UNCHANGED inflight
  /\ UNCHANGED <<users, books, reviews, comments, nextReviewId, nextCommentId, nextBookId,
               nextUserId, uploads, client, tokens>>

BeginCreateNestedComment(s) ==
  /\ inflight[s].pc = "idle"
  /\ nextCommentId + Cardinality(Inserting) <= MaxThreadComments
  /\ \E cred \in ThreadCredentials, p \in 1..MaxThreadComments :
       LET auth == authorization(cred)
       IN IF auth.next /\ p \in DOMAIN comments
          THEN /\ inflight' = [inflight EXCEPT ![s] =
                    [Idle EXCEPT !.pc = "replySave", !.userId = auth.userId,
                                 !.reviewId = comments[p].reviewId, !.parent = p,
                                 !.content = "x"]]
               /\ UNCHANGED resp
          ELSE /\ resp' = Response("createNestedComment", cred,
                                   PostNestedComment(cred, p, "x", Db))
               /\ UNCHANGED inflight
  /\ UNCHANGED <<users, books, reviews, comments, nextReviewId, nextCommentId, nextBookId,
               nextUserId, uploads, client, tokens>>

\* newComment.save() / reply.save()
SaveComment(s) ==
  /\ inflight[s].pc \in {"commentSave", "replySave"}
  /\ LET q == inflight[s]
     IN /\ comments' = comments @@
              (nextCommentId :> [reviewId |-> q.reviewId, userId |-> q.userId,
                                 content |-> q.content, parent |-> q.parent,
                                 replies |-> <<>>, likes |-> 0, likedBy |-> <<>>])
        /\ inflight' = [inflight EXCEPT
                          ![s].pc = IF q.pc = "commentSave" THEN "commentPush" ELSE "replyPush",
                          ![s].newCommentId = nextCommentId]
  /\ nextCommentId' = nextCommentId + 1
  /\ UNCHANGED <<users, books, reviews, nextReviewId, nextBookId, nextUserId, uploads, client, tokens, resp>>

\* review.save() / parentComment.save() and the response
PushToOwner(s) ==
  /\ inflight[s].pc \in {"commentPush", "replyPush"}
  /\ LET q == inflight[s]
     IN IF q.pc = "commentPush"
        THEN IF q.reviewId \in DOMAIN reviews
             THEN LET d == updateBookRating(
                             [Db EXCEPT !.reviews[q.reviewId].comments = Append(@, q.newCommentId)],
                             reviews[q.reviewId].bookId)
                  IN /\ reviews' = d.reviews
                     /\ books' = d.books
                     /\ resp' = [op |-> "createComment", status |-> 201,
                                 message |-> "Comment created successfully"]
                     /\ UNCHANGED comments
             ELSE /\ resp' = [op |-> "createComment", status |-> 500,
                              message |-> DocumentNotFoundError.message]
                  /\ UNCHANGED <<reviews, books, comments>>
        ELSE IF q.parent \in DOMAIN comments
             THEN /\ comments' = [comments EXCEPT ![q.parent].replies = Append(@, q.newCommentId)]
                  /\ resp' = [op |-> "createNestedComment", status |-> 201,
                              message |-> "Reply created successfully"]
                  /\ UNCHANGED <<reviews, books>>
             ELSE /\ resp' = [op |-> "createNestedComment", status |-> 500,
                              message |-> DocumentNotFoundError.message]
                  /\ UNCHANGED <<reviews, books, comments>>
  /\ inflight' = [inflight EXCEPT ![s] = Idle]
  /\ UNCHANGED <<users, nextReviewId, nextCommentId, nextBookId, nextUserId, uploads, client, tokens>>

BeginDeleteComment(s) ==
  /\ inflight[s].pc = "idle"
  /\ \E cred \in ThreadCredentials, c \in 1..MaxThreadComments :
       LET auth == authorization(cred)
       IN IF /\ auth.next
             /\ c \in DOMAIN comments
             /\ (auth.role = "admin" \/ auth.userId = comments[c].userId)
          THEN /\ inflight' = [inflight EXCEPT ![s] =
                    [Idle EXCEPT !.pc = "commentCascade", !.userId = auth.userId,
                                 !.commentId = c, !.parent = comments[c].parent,
                                 !.reviewId = comments[c].reviewId]]
               /\ UNCHANGED resp
          ELSE /\ resp' = Response("deleteComment", cred, DeleteCommentRoute(cred, c, Db))
               /\ UNCHANGED inflight
  /\ UNCHANGED <<users, books, reviews, comments, nextReviewId, nextCommentId, nextBookId,
               nextUserId, uploads, client, tokens>>

\* await this.deleteCommentAndReplies(commentId)
CascadeComment(s) ==
  /\ inflight[s].pc = "commentCascade"
  /\ comments' = deleteCommentAndReplies(comments, inflight[s].commentId)
  /\ inflight' = [inflight EXCEPT ![s].pc = "commentPull"]
  /\ UNCHANGED <<users, books, reviews, nextReviewId, nextCommentId, nextBookId, nextUserId, uploads, client,
               tokens, resp>>

\* the $pull from the parent's replies or the review's comments, and the response
PullFromOwner(s) ==
  /\ inflight[s].pc = "commentPull"
  /\ LET q == inflight[s]
     IN IF q.parent # NoId
        THEN /\ comments' = PullReply(comments, q.parent, q.commentId)
             /\ UNCHANGED reviews
        ELSE /\ reviews' = PullComment(reviews, q.reviewId, q.commentId)
             /\ UNCHANGED comments
  /\ resp' = [op |-> "deleteComment", status |-> 200,
              message |-> "Comment deleted successfully"]
  /\ inflight' = [inflight EXCEPT ![s] = Idle]
  /\ UNCHANGED <<users, books, nextReviewId, nextCommentId, nextBookId, nextUserId, uploads, client, tokens>>

NextThread ==
  \/ CreateReview(ThreadCredentials, {"b1"}, {"x"}, {1}, MaxThreadReviews)
  \/ \E s \in 1..MaxInflight :
       \/ BeginCreateComment(s)
       \/ BeginCreateNestedComment(s)
       \/ SaveComment(s)
       \/ PushToOwner(s)
       \/ BeginDeleteComment(s)
       \/ CascadeComment(s)
       \/ PullFromOwner(s)

SpecThread == Init /\ [][NextThread]_vars

\* ------------------------------------------ SpecRoles: promotion and tokens
RoleCredentials ==
  {cred \in Credentials :
     \/ cred.header = "missing"
     \/ cred.token.kind = "valid" /\ cred.token.id \in {"u1", "ad"}}

NextRoles ==
  \/ Promote(RoleCredentials, {"u1", GhostUser})
  \/ Login
  \/ CreateBook(RoleCredentials, {NoFile}, {"t1"}, MaxNewBooks)
  \/ DeleteBook(RoleCredentials, {"b1", NewBookIds[1]})

SpecRoles == Init /\ [][NextRoles]_vars

\* --------------------------------------- SpecSession: the useUserData hook
backend == <<users, books, reviews, comments, nextReviewId, nextCommentId, nextBookId,
             nextUserId, tokens, resp, inflight, uploads>>

\* LoginForm / OauthLogin on a successful sign-in
ClientLogin ==
  \E t \in SessionTokens :
    /\ Len(client.mePending) < MaxPending
    /\ client' = [setIsLoggedIn([client EXCEPT !.token = t], TRUE) EXCEPT !.last = "login"]
    /\ UNCHANGED backend

\* the logout button: the token is dropped and isLoggedIn set to false
ClientLogout ==
  /\ client.isLoggedIn
  /\ client' = [setIsLoggedIn([client EXCEPT !.token = NoSession], FALSE)
                  EXCEPT !.last = "logout"]
  /\ UNCHANGED backend

\* a GET /users/me comes back with the user; a request without a token never does
MeSucceeds ==
  \E i \in DOMAIN client.mePending :
    /\ client.mePending[i] # NoSession
    /\ client' = [meThen([client EXCEPT !.mePending = Without(@, i)],
                          Me(client.mePending[i])) EXCEPT !.last = "meOk"]
    /\ UNCHANGED backend

\* a GET /users/me is rejected or lost
MeFails ==
  \E i \in DOMAIN client.mePending :
    /\ client' = [meCatch([client EXCEPT !.mePending = Without(@, i)])
                    EXCEPT !.last = "meFailed"]
    /\ UNCHANGED backend

\* the page is loaded again: the atoms take their defaults, isLoggedIn from
\* localStorage, the old page's requests are gone, and the effect runs
Reload ==
  /\ client' = [userEffect([ClientInit EXCEPT !.token = client.token,
                                              !.isLoggedIn = (client.token # NoSession)])
                  EXCEPT !.last = "reload"]
  /\ UNCHANGED backend

NextSession ==
  \/ ClientLogin
  \/ ClientLogout
  \/ MeSucceeds
  \/ MeFails
  \/ Reload

SpecSession == Init /\ [][NextSession]_vars

\* ------------------------------------------ SpecCatalog: the useBooks hook
\* the effect on [location.search, genre]: a new query issues a new request
Search ==
  \E q \in Queries :
    /\ q # client.searchQuery
    /\ Len(client.booksPending) < MaxPending
    /\ client' = [client EXCEPT !.isLoading = TRUE, !.searchQuery = q,
                                !.booksPending = Append(@, q), !.last = "search"]
    /\ UNCHANGED backend

\* .then(setBooks(response.data.books)) and .finally of any request in flight
BooksArrive ==
  \E i \in DOMAIN client.booksPending :
    /\ client' = [client EXCEPT !.books = getAllBooks(client.booksPending[i], Db),
                                !.isLoading = FALSE,
                                !.booksPending = Without(@, i), !.last = "booksOk"]
    /\ UNCHANGED backend

\* .catch(toast.error) and .finally of any request in flight
BooksFail ==
  \E i \in DOMAIN client.booksPending :
    /\ client' = [client EXCEPT !.toasted = TRUE, !.isLoading = FALSE,
                                !.booksPending = Without(@, i), !.last = "booksFailed"]
    /\ UNCHANGED backend

NextCatalog ==
  \/ Search
  \/ BooksArrive
  \/ BooksFail

SpecCatalog == Init /\ [][NextCatalog]_vars

\* ===================================================================== claims

\* the credentials that carry a validly signed, unexpired token
Authenticated == {cred \in Credentials : cred.header = "bearer" /\ cred.token.kind = "valid"}

\* C1: after every completed review create, update and delete, each book's
\* totalReviews is the number of reviews stored for it and its averageRating
\* times totalReviews is the sum of their ratings; both are 0 without reviews.
C1_AggregateMatchesReviews ==
  \A b \in DOMAIN books :
    LET ids == ReviewsOf(reviews, b)
        avg == books[b].averageRating
    IN /\ books[b].totalReviews = Cardinality(ids)
       /\ avg[2] > 0
       /\ avg[1] * books[b].totalReviews = SumRatings(reviews, ids) * avg[2]
       /\ (ids = {} => avg[1] = 0 /\ books[b].totalReviews = 0)

\* two reviews on one book whose mean is not an integer, right after a
\* review request succeeded
C1_Witness ==
  /\ resp.op \in {"createReview", "updateReview", "deleteReview"}
  /\ resp.status = 200
  /\ \E b \in DOMAIN books :
       books[b].totalReviews = 2 /\ books[b].averageRating = <<3, 2>>

\* C2: at most one review per (book, user), and a createReview by a user who
\* already reviewed the book answers 400 'You have already reviewed this
\* book' and leaves the reviews and the book's aggregate unchanged.
C2_DuplicateIsConflict400 ==
  /\ \A r1, r2 \in DOMAIN reviews :
       (reviews[r1].bookId = reviews[r2].bookId /\ reviews[r1].userId = reviews[r2].userId)
          => r1 = r2
  /\ \A cred \in Authenticated, b \in BookIds, c \in Contents, k \in RatingInputs :
       (\E r \in DOMAIN reviews : reviews[r].bookId = b /\ reviews[r].userId = cred.token.id)
          => LET out == PostReview(cred, b, c, k, Db)
             IN /\ out.status = 400
                /\ out.message = "You have already reviewed this book"
                /\ out.db.reviews = reviews
                /\ out.db.books = books

\* C7: on every credential failure (no header, not 'Bearer <token>', malformed
\* token, bad signature, expired token, valid token of an unknown user) the
\* middleware answers 401, the handler does not run and no record changes.
CredentialFailures ==
  {"missing", "nonBearer", "malformed", "badsig", "expired", "unknownUser"}

C7_GateHaltsWith401 ==
  \A cred \in Credentials :
    CredClass(cred) \in CredentialFailures =>
      /\ ~authorization(cred).next
      /\ authorization(cred).status = 401
      /\ \A b \in BookIds, c \in Contents, k \in RatingInputs :
           LET out == PostReview(cred, b, c, k, Db)
           IN out.status = 401 /\ out.db = Db

\* C8: updateReview by an authenticated user other than the author (an admin
\* included) answers 401 'You are not authorized to update this review' and
\* changes nothing; it succeeds only for the author.
C8_OnlyAuthorUpdates ==
  \A cred \in Authenticated, r \in DOMAIN reviews, c \in Contents, k \in RatingInputs :
    LET out == PutReview(cred, r, c, k, Db)
    IN /\ out.status = 200 => cred.token.id = reviews[r].userId
       /\ cred.token.id # reviews[r].userId =>
            /\ out.status = 401
            /\ out.message = "You are not authorized to update this review"
            /\ out.db = Db

\* the admin has just been refused the update of another user's review
C8_Witness ==
  /\ resp = [op |-> "updateReview", status |-> 401,
             message |-> "You are not authorized to update this review"]
  /\ \E r \in DOMAIN reviews :
       /\ reviews[r].userId # "ad"
       /\ \E cred \in Authenticated :
            /\ cred.token.role = "admin"
            /\ PutReview(cred, r, "y", 2, Db).status = 401

\* C10: a DELETE of a review by an authenticated user who is not its author
\* (an admin included) answers 401 'You are not authorized to delete this
\* review' and the review still exists.
C10_NonAuthorDeleteRejected ==
  \A cred \in Authenticated, r \in DOMAIN reviews :
    cred.token.id # reviews[r].userId =>
      LET out == DeleteReviewRoute(cred, r, Db)
      IN /\ out.status = 401
         /\ out.message = "You are not authorized to delete this review"
         /\ r \in DOMAIN out.db.reviews

\* ------------------------------------------------------- comment tree claims
\* c and every comment under it, following the replies lists
RECURSIVE Subtree(_, _)
Subtree(cms, c) ==
  IF c \notin DOMAIN cms THEN {}
  ELSE {c} \cup UNION {Subtree(cms, k) : k \in Range(cms[c].replies)}

\* the comments reachable from review r through its comments list
ReachableFrom(r) == UNION {Subtree(comments, c) : c \in Range(reviews[r].comments)}

RECURSIVE DropAll(_, _)
DropAll(seq, x) ==
  IF seq = <<>> THEN <<>>
  ELSE IF Head(seq) = x THEN DropAll(Tail(seq), x)
  ELSE <<Head(seq)>> \o DropAll(Tail(seq), x)

\* C3: of two overlapping createReview requests by one user for one book
\* (both past any existence check before either writes) at most one is
\* persisted; the unique index makes the second write fail.
Persisted(s) == inflight[s].pc \in {"hookRead", "hookWrite", "saved"}
SamePair(s, t) ==
  /\ inflight[s].pc # "idle" /\ inflight[t].pc # "idle"
  /\ inflight[s].userId = inflight[t].userId
  /\ inflight[s].bookId = inflight[t].bookId

C3_OneOfTwoOverlappingPersisted ==
  /\ \A r1, r2 \in DOMAIN reviews :
       (reviews[r1].bookId = reviews[r2].bookId /\ reviews[r1].userId = reviews[r2].userId)
          => r1 = r2
  /\ \A s, t \in 1..MaxInflight :
       (s # t /\ SamePair(s, t) /\ inflight[s].checkPassed /\ inflight[t].checkPassed)
          => ~(Persisted(s) /\ Persisted(t))

\* both requests began while the user had no review of the book; one write
\* went through and the other failed
C3_Witness ==
  \E s, t \in 1..MaxInflight :
    /\ s # t /\ SamePair(s, t)
    /\ inflight[s].checkPassed /\ inflight[t].checkPassed
    /\ Persisted(s)
    /\ inflight[t].pc = "failed"
    /\ Cardinality({r \in DOMAIN reviews :
          reviews[r].bookId = inflight[s].bookId /\ reviews[r].userId = inflight[s].userId}) = 1

\* C4: after a successful deleteReview(r), r is gone and so is every comment
\* that was reachable from r, at any depth.
C4_DeleteReviewRemovesTree ==
  \A cred \in Credentials, r \in DOMAIN reviews :
    LET out == DeleteReviewRoute(cred, r, Db)
    IN out.status = 200 =>
         /\ r \notin DOMAIN out.db.reviews
         /\ \A c \in ReachableFrom(r) : c \notin DOMAIN out.db.comments

\* a review with a comment, a reply and a reply to the reply is deleted
C4_Witness ==
  \E r \in DOMAIN reviews, c1, c2, c3 \in DOMAIN comments :
    /\ c1 \in Range(reviews[r].comments)
    /\ c2 \in Range(comments[c1].replies)
    /\ c3 \in Range(comments[c2].replies)
    /\ \E cred \in TreeCredentials :
         LET out == DeleteReviewRoute(cred, r, Db)
         IN out.status = 200 /\ {c1, c2, c3} \cap DOMAIN out.db.comments = {}

\* C5 (as stated): a successful deleteComment(c) removes exactly c and its
\* reply subtree, and every other comment keeps its content and its replies.
C5_OthersKeepContentAndReplies ==
  \A cred \in Credentials, c \in DOMAIN comments :
    LET out == DeleteCommentRoute(cred, c, Db)
        gone == Subtree(comments, c)
    IN out.status = 200 =>
         /\ DOMAIN out.db.comments = DOMAIN comments \ gone
         /\ \A x \in DOMAIN comments \ gone : out.db.comments[x] = comments[x]

\* C5 (amended): a successful deleteComment(c) removes exactly c and its reply
\* subtree; every other comment is unchanged, except that c's id is removed
\* from the replies list of c's parent.
C5_OthersUnchangedButParentList ==
  \A cred \in Credentials, c \in DOMAIN comments :
    LET out == DeleteCommentRoute(cred, c, Db)
        gone == Subtree(comments, c)
    IN out.status = 200 =>
         /\ DOMAIN out.db.comments = DOMAIN comments \ gone
         /\ \A x \in DOMAIN comments \ gone :
              IF x = comments[c].parent
              THEN out.db.comments[x] = [comments[x] EXCEPT !.replies = DropAll(@, c)]
              ELSE out.db.comments[x] = comments[x]

\* a reply that has a sibling is deleted; the sibling and the parent stay
C5_Witness ==
  \E c, sib \in DOMAIN comments :
    /\ c # sib
    /\ comments[c].parent # NoId
    /\ comments[sib].parent = comments[c].parent
    /\ \E cred \in TreeCredentials :
         LET out == DeleteCommentRoute(cred, c, Db)
         IN /\ out.status = 200
            /\ c \notin DOMAIN out.db.comments
            /\ {sib, comments[c].parent} \subseteq DOMAIN out.db.comments

\* C6: after a successful deleteComment(c), c's id is absent from its parent's
\* replies list (from the review's comments list when c is top-level) and the
\* other entries of that list are unchanged and in the same order.
C6_PrunedFromOwnerList ==
  \A cred \in Credentials, c \in DOMAIN comments :
    LET out == DeleteCommentRoute(cred, c, Db)
        p == comments[c].parent
        r == comments[c].reviewId
    IN out.status = 200 =>
         IF p # NoId
         THEN /\ p \in DOMAIN out.db.comments
              /\ c \notin Range(out.db.comments[p].replies)
              /\ out.db.comments[p].replies = DropAll(comments[p].replies, c)
         ELSE /\ r \in DOMAIN out.db.reviews
              /\ c \notin Range(out.db.reviews[r].comments)
              /\ out.db.reviews[r].comments = DropAll(reviews[r].comments, c)

\* the middle one of three top-level comments is deleted
C6_Witness ==
  \E r \in DOMAIN reviews :
    /\ Len(reviews[r].comments) = 3
    /\ \E cred \in TreeCredentials :
         LET c == reviews[r].comments[2]
             out == DeleteCommentRoute(cred, c, Db)
         IN /\ out.status = 200
            /\ out.db.reviews[r].comments = <<reviews[r].comments[1], reviews[r].comments[3]>>

C11_BookWritesAdminOnly ==
  \A cred \in Authenticated, t \in Titles, b \in DOMAIN books \cup {GhostBook} :
    LET created == PostBook(cred, NoFile, t, Db)
        updated == PutBook(cred, NoFile, b, t, Db)
        deleted == DeleteBookRoute(cred, b, Db)
    IN /\ cred.token.role # "admin" =>
            /\ created.status = 401
            /\ created.message = "You are not Authorized to Add Book"
            /\ updated.status = 401
            /\ updated.message = "You are not Authorized to Update a Book"
            /\ deleted.status = 401
            /\ deleted.message = "You are not Authorized to Delete a Book"
            /\ created.db.books = books
            /\ updated.db.books = books
            /\ deleted.db.books = books
       /\ (created.db.books # books \/ updated.db.books # books \/ deleted.db.books # books)
            => cred.token.role = "admin"

\* a user has just been refused the deletion of a book that the admin created
\* and retitled
C11_Witness ==
  /\ resp = [op |-> "deleteBook", status |-> 401,
             message |-> "You are not Authorized to Delete a Book"]
  /\ NewBookIds[1] \in DOMAIN books
  /\ books[NewBookIds[1]].title = "t2"
  /\ \E cred \in BookCredentials :
       /\ cred.token.id = "u1"
       /\ PostBook(cred, NoFile, "t1", Db).status = 401
       /\ PutBook(cred, NoFile, "b1", "t2", Db).status = 401

\* C12: after an admin's deleteBook(b), b does not exist, no review has
\* bookId = b, and b is in no user's favoriteBooks.
C12_DeleteBookCascades ==
  \A cred \in Credentials, b \in DOMAIN books :
    LET out == DeleteBookRoute(cred, b, Db)
    IN out.status = 200 =>
         /\ b \notin DOMAIN out.db.books
         /\ \A r \in DOMAIN out.db.reviews : out.db.reviews[r].bookId # b
         /\ \A u \in DOMAIN out.db.users : b \notin Range(out.db.users[u].favoriteBooks)

\* the admin deletes a book that has two reviews and is a favourite of one user
C12_Witness ==
  \E b \in DOMAIN books :
    /\ Cardinality(ReviewsOf(reviews, b)) = 2
    /\ Cardinality({u \in DOMAIN users : b \in Range(users[u].favoriteBooks)}) = 1
    /\ \E cred \in BookCredentials :
         LET out == DeleteBookRoute(cred, b, Db)
         IN /\ out.status = 200
            /\ out.db.reviews = <<>>
            /\ \A u \in DOMAIN users : b \notin Range(out.db.users[u].favoriteBooks)

\* C18: the favourites toggle flips membership of an existing book in the
\* requester's favoriteBooks ('Book removed from favourites' / 'Book added to
\* favourites') and changes no other user's favourites; for a book id that
\* matches no stored book it answers 404 'Book not found' and the favourites
\* are unchanged.
C18_FavouriteToggleFlips ==
  \A cred \in Authenticated, b \in DOMAIN books \cup {GhostBook} \cup Range(NewBookIds) :
    cred.token.id \in DOMAIN users =>
      LET u == cred.token.id
          out == PutFavourite(cred, b, Db)
          was == b \in Range(users[u].favoriteBooks)
          is == b \in Range(out.db.users[u].favoriteBooks)
      IN /\ \A v \in DOMAIN users \ {u} : out.db.users[v] = users[v]
         /\ b \in DOMAIN books =>
              /\ out.status = 200
              /\ is = ~was
              /\ out.message = IF was THEN "Book removed from favourites"
                               ELSE "Book added to favourites"
              /\ \A x \in DOMAIN books \ {b} :
                   (x \in Range(out.db.users[u].favoriteBooks))
                      = (x \in Range(users[u].favoriteBooks))
         /\ b \notin DOMAIN books =>
              /\ out.status = 404
              /\ out.message = "Book not found"
              /\ out.db.users = users

\* a user with two favourites has just removed a third, while the admin has
\* favourites of their own; an unknown book id is refused
C18_Witness ==
  /\ resp = [op |-> "toggleFavouriteBook", status |-> 200,
             message |-> "Book removed from favourites"]
  /\ users["u1"].favoriteBooks # <<>>
  /\ users["ad"].favoriteBooks # <<>>
  /\ \E cred \in BookCredentials :
       /\ cred.token.id = "u1"
       /\ PutFavourite(cred, GhostBook, Db).status = 404
       /\ \E b \in DOMAIN books :
            /\ b \notin Range(users["u1"].favoriteBooks)
            /\ PutFavourite(cred, b, Db).message = "Book added to favourites"

\* ------------------------------------------------------------ like claims
Quiescent == \A s \in 1..MaxInflight : inflight[s].pc = "idle"

\* the credentials of the stored users
Members == {cred \in Authenticated : cred.token.id \in DOMAIN users}

\* the mirror agrees on user u and review r / comment c
ReviewMirrored(u, r) ==
  (u \in Range(reviews[r].likedBy)) = (r \in Range(users[u].likedReviews))
CommentMirrored(u, c) ==
  (u \in Range(comments[c].likedBy)) = (c \in Range(users[u].likedComments))

\* two consecutive toggles by cred on review r restore r's like-set and the
\* user's liked-set; a like followed by an unlike restores the arrays as well
ReviewToggledTwiceRestores(cred, r) ==
  LET u == cred.token.id
      first == PostLike(cred, r, Db)
      second == PostLike(cred, r, first.db)
  IN /\ first.status = 200 /\ second.status = 200
     /\ Range(second.db.reviews[r].likedBy) = Range(reviews[r].likedBy)
     /\ Range(second.db.users[u].likedReviews) = Range(users[u].likedReviews)
     /\ first.message = "Review liked successfully" =>
          /\ second.message = "Review unliked successfully"
          /\ second.db.reviews[r].likedBy = reviews[r].likedBy
          /\ second.db.users[u].likedReviews = users[u].likedReviews

CommentToggledTwiceRestores(cred, c) ==
  LET u == cred.token.id
      first == PostCommentLike(cred, c, Db)
      second == PostCommentLike(cred, c, first.db)
  IN /\ first.status = 200 /\ second.status = 200
     /\ Range(second.db.comments[c].likedBy) = Range(comments[c].likedBy)
     /\ Range(second.db.users[u].likedComments) = Range(users[u].likedComments)
     /\ first.message = "Comment liked successfully" =>
          /\ second.message = "Comment unliked successfully"
          /\ second.db.comments[c].likedBy = comments[c].likedBy
          /\ second.db.users[u].likedComments = users[u].likedComments

C14_DecidesFromLikeSet ==
  Quiescent =>
    \A cred \in Members, r \in DOMAIN reviews :
      LET u == cred.token.id
          out == PostLike(cred, r, Db)
      IN IF u \in Range(reviews[r].likedBy)
         THEN /\ out.message = "Review unliked successfully"
              /\ u \notin Range(out.db.reviews[r].likedBy)
         ELSE /\ out.message = "Review liked successfully"
              /\ u \in Range(out.db.reviews[r].likedBy)

\* C15: when every like toggle that was started has run to completion, the
\* mirror is consistent: for every user u and every stored review or comment
\* t, u is in t's like-set exactly when t is in u's liked list.
C15_MirrorConsistentAfterToggles ==
  Quiescent =>
    /\ \A u \in DOMAIN users, r \in DOMAIN reviews : ReviewMirrored(u, r)
    /\ \A u \in DOMAIN users, c \in DOMAIN comments : CommentMirrored(u, c)

\* C17: a like toggle on a review id that matches no stored review answers
\* 404 'Review not found' and changes nothing; the id is not added to the
\* requester's likedReviews.
C17_LikeOfUnknownReviewIs404 ==
  \A cred \in Members :
    LET out == PostLike(cred, GhostReview, Db)
    IN /\ out.status = 404
       /\ out.message = "Review not found"
       /\ out.db = Db
       /\ GhostReview \notin Range(out.db.users[cred.token.id].likedReviews)

\* C16: createReview for a book id that matches no stored book answers 404
\* 'Book not found' and persists no review.
C16_ReviewOfUnknownBookIs404 ==
  \A cred \in Members, c \in Contents, k \in RatingInputs :
    LET out == PostReview(cred, GhostBook, c, k, Db)
    IN /\ out.status = 404
       /\ out.message = "Book not found"
       /\ out.db.reviews = reviews

\* C19: no user's favoriteBooks contains the same book id twice, after any
\* favourite toggles, overlapping ones by one user for one book included.
C19_FavouritesHaveNoDuplicates ==
  \A u \in DOMAIN users :
    \A i, j \in DOMAIN users[u].favoriteBooks :
      users[u].favoriteBooks[i] = users[u].favoriteBooks[j] => i = j

RECURSIVE CountDelete(_, _), CountEach(_, _)
CountEach(cms, ids) ==
  IF ids = <<>>
  THEN [cms |-> cms, calls |-> 0]
  ELSE LET h == CountDelete(cms, Head(ids))
           t == CountEach(h.cms, Tail(ids))
       IN [cms |-> t.cms, calls |-> h.calls + t.calls]
CountDelete(cms, commentId) ==
  IF commentId \notin DOMAIN cms
  THEN [cms |-> cms, calls |-> 1]
  ELSE LET r == CountEach(Remove(cms, commentId), cms[commentId].replies)
       IN [cms |-> r.cms, calls |-> r.calls + 1]

\* ids grow with creation, so a reply is younger than the comment holding it
Acyclic ==
  \A c \in DOMAIN comments :
    /\ \A k \in Range(comments[c].replies) : k > c
    /\ comments[c].parent # NoId => comments[c].parent < c

\* the ids the recursion can meet: the stored comments and the listed replies
Listed == DOMAIN comments \cup UNION {Range(comments[c].replies) : c \in DOMAIN comments}

\* C21: deleteCommentAndReplies terminates for every comment in every
\* reachable state of the store: the replies relation has no cycle (a reply
\* names a comment that existed before it), so the recursion makes at most
\* one call per comment id and leaves what the cascade leaves.
C21_CascadeTerminates ==
  /\ Acyclic
  /\ \A c \in DOMAIN comments :
       LET r == CountDelete(comments, c)
       IN /\ r.calls <= Cardinality(Listed)
          /\ r.cms = deleteCommentAndReplies(comments, c)

\* a reply to a reply to a comment: deleting the comment takes three calls
C21_Witness ==
  \E a, b, c \in DOMAIN comments :
    /\ comments[a].parent = NoId
    /\ comments[b].parent = a /\ comments[c].parent = b
    /\ CountDelete(comments, a).calls = 3
    /\ DOMAIN CountDelete(comments, a).cms = DOMAIN comments \ {a, b, c}

\* a stored comment keeps its parent and its review
ParentFixed ==
  \A c \in DOMAIN comments \cap DOMAIN comments' :
    /\ comments'[c].parent = comments[c].parent
    /\ comments'[c].reviewId = comments[c].reviewId

\* C22: in every reachable state the comments form a forest rooted at the
\* reviews: a reply's parent is a stored, older comment of the same review
\* (so the parent links end at a top-level comment), and no step changes the
\* parent or the review of a stored comment.
C22_CommentsFormForest ==
  /\ [](\A c \in DOMAIN comments :
          comments[c].parent # NoId =>
            /\ comments[c].parent \in DOMAIN comments
            /\ comments[c].parent < c
            /\ comments[comments[c].parent].reviewId = comments[c].reviewId)
  /\ [][ParentFixed]_vars

\* the lists that hold comment c: a review's comments or a comment's replies
Owners(c) ==
  {<<"review", r>> : r \in {x \in DOMAIN reviews : c \in Range(reviews[x].comments)}}
    \cup {<<"comment", p>> : p \in {x \in DOMAIN comments : c \in Range(comments[x].replies)}}

NoRepeats(seq) == \A i, j \in DOMAIN seq : seq[i] = seq[j] => i = j

\* C28: whenever no comment request is in progress the child lists and the
\* comment records agree: each id in a review's comments is a stored
\* top-level comment of that review, each id in a comment's replies is a
\* stored comment whose parent is that comment, and every stored comment is
\* in exactly one such list, also after overlapping createComment,
\* createNestedComment and deleteComment requests.
C28_ListsAgreeWhenQuiescent ==
  Quiescent =>
    /\ \A r \in DOMAIN reviews : \A c \in Range(reviews[r].comments) :
         /\ c \in DOMAIN comments
         /\ comments[c].parent = NoId
         /\ comments[c].reviewId = r
    /\ \A p \in DOMAIN comments : \A c \in Range(comments[p].replies) :
         /\ c \in DOMAIN comments
         /\ comments[c].parent = p
    /\ \A c \in DOMAIN comments : Cardinality(Owners(c)) = 1
    /\ \A r \in DOMAIN reviews : NoRepeats(reviews[r].comments)
    /\ \A p \in DOMAIN comments : NoRepeats(comments[p].replies)

\* the aggregate stored for book b is the one its stored reviews give
Exact(db, b) ==
  /\ db.books[b].averageRating = BookStats(db.reviews, b).averageRating
  /\ db.books[b].totalReviews = BookStats(db.reviews, b).totalReviews

\* C23: overlapping review mutations may leave a book's aggregate stale, but
\* the next review mutation on that book that runs without overlap leaves
\* averageRating and totalReviews exact for the reviews then stored: the
\* recompute reads only the stored reviews, never the stored aggregate.
C23_NextMutationHealsAggregate ==
  Quiescent =>
    \A cred \in RaceCredentials, k \in RatingInputs :
      /\ \A b \in DOMAIN books :
           LET out == PostReview(cred, b, "x", k, Db)
           IN out.status = 200 => Exact(out.db, b)
      /\ \A r \in DOMAIN reviews :
           LET put == PutReview(cred, r, "y", k, Db)
               del == DeleteReviewRoute(cred, r, Db)
           IN /\ put.status = 200 => Exact(put.db, reviews[r].bookId)
              /\ del.status = 200 => Exact(del.db, reviews[r].bookId)

\* two overlapping creations have left b1 with two reviews and the aggregate
\* of one; an update or a deletion by an author now makes it exact
C23_Witness ==
  /\ Quiescent
  /\ Cardinality(ReviewsOf(reviews, "b1")) = 2
  /\ books["b1"].totalReviews = 1
  /\ \E cred \in RaceCredentials, r \in DOMAIN reviews :
       /\ PutReview(cred, r, "y", 2, Db).status = 200
       /\ Exact(PutReview(cred, r, "y", 2, Db).db, "b1")
       /\ DeleteReviewRoute(cred, r, Db).status = 200
       /\ Exact(DeleteReviewRoute(cred, r, Db).db, "b1")

\* C27: whenever no like toggle is in progress, the likes counter of every
\* review and of every comment equals the number of users in its likedBy
\* set, also after two overlapping toggles by one user on one target.
C27_LikesCountLikedBy ==
  Quiescent =>
    /\ \A r \in DOMAIN reviews : reviews[r].likes = Cardinality(Range(reviews[r].likedBy))
    /\ \A c \in DOMAIN comments : comments[c].likes = Cardinality(Range(comments[c].likedBy))

\* --------------------------------------------------- role and upload claims
\* C24: the role the gate attaches to a request is the role now stored for
\* the token's user, so a user promoted by an admin is let in as admin on
\* the next request with a token issued before the promotion.
C24_GateAttachesStoredRole ==
  \A cred \in Members :
    /\ authorization(cred).role = users[cred.token.id].role
    /\ users[cred.token.id].role = "admin" =>
         PostBook(cred, NoFile, "t1", Db).status = 200

\* C29: on POST /books and PUT /books/:id the cover image is uploaded only
\* for an admin's request: a request answered 401 has uploaded nothing.
C29_NoUploadOn401 ==
  \A cred \in BookCredentials, f \in Files, b \in DOMAIN books :
    LET created == PostBook(cred, f, "t1", Db)
        updated == PutBook(cred, f, b, "t2", Db)
    IN /\ created.status = 401 => created.db.uploads = uploads
       /\ updated.status = 401 => updated.db.uploads = uploads

\* ------------------------------------------------------------ browser claims
Cleared(c) ==
  /\ c.userRole = "" /\ c.userId = ""
  /\ c.userFavourites = <<>> /\ c.likedReviews = <<>> /\ c.likedComments = <<>>

\* C25: when GET /users/me fails, useUserData removes the token from
\* localStorage and sets isLoggedIn to false, so the client ends logged out
\* with role, id, favourites and liked lists cleared.
C25_FailedFetchLogsOut ==
  client.last = "meFailed" =>
    /\ client.token = NoSession
    /\ ~client.isLoggedIn
    /\ Cleared(client)

\* C30: once isLoggedIn is false it stays false and the user atoms stay
\* empty until the next login (or a load of the page with a stored token): a
\* response to a /users/me request still in flight changes neither.
C30_LoggedOutUntilLogin ==
  [][(~client.isLoggedIn /\ client'.last \notin {"login", "reload"})
       => (~client'.isLoggedIn /\ Cleared(client'))]_vars

\* C26: when a new /books request was issued while an earlier one was
\* pending, then once every response has arrived books holds the response
\* to the request issued last, whatever the order of arrival.
C26_LastIssuedWins ==
  (client.booksPending = <<>> /\ client.searchQuery # "none" /\ ~client.toasted)
    => client.books = getAllBooks(client.searchQuery, Db)

====
